---- MODULE Spec2Model ----
(***************************************************************************)
(* Multi-destination stream orchestration (relay_controller.ts) over the   *)
(* generic-data store (ExtendedStateManager.saveData / getData) and the    *)
(* YouTube / LinkedIn platform clients.                                    *)
(*                                                                         *)
(* Time is in milliseconds.  Optional fields of the TypeScript interfaces  *)
(* are modelled by sentinels of the field's own type: NoTime for a Date    *)
(* or number that is absent, NoId for a missing streamId, "" for a missing *)
(* string, and a `present` flag for an absent platform entry.              *)
(*                                                                         *)
(* Every handler is an operator from the world it is called in to the      *)
(* world it leaves: the module state, the store and the remote platforms,  *)
(* together with the remote calls, store writes and start attempts it      *)
(* made and the error it threw.  An action commits one such result, for    *)
(* one choice of what the store and the remote side answer.  The claims    *)
(* apply the same operators, over the same answers, to the reachable       *)
(* states.                                                                 *)
(***************************************************************************)
EXTENDS Integers, Sequences, FiniteSets, TLC

\* ------------------------------------------------------------------ bounds
MaxNow == 1600         \* the clock stops advancing here
MaxIds == 2            \* remote ids that can be in use at the same time
MaxStoreFaults == 1    \* store requests that fail over a behaviour
MaxRestarts == 1       \* process restarts over a behaviour
MaxVersion == 2        \* versions a stored record goes through
MaxStoreNow == 300000  \* the clock of the state manager's callers stops here
MaxEvents == 2         \* scheduled events in the store

\* ------------------------------------------------------------- vocabulary
Platforms == {"youtube", "linkedin"}
TickSteps == {1600}
NoTime == 0 - 1
NoId == 0
NoAccount == ""
Absent == "absent"
StreamKeys == {Absent}

ErrNotConfigured == "Relay not configured. Call configureRelay first."
ErrNoDestinations == "No destinations configured. Add at least one destination."
ErrInterrupted == "Stream was interrupted due to application restart"
ErrStorage == "Failed to save data"
ErrRemoteApi == "remote api error"
ErrDestinationNotFound == "destination not found for account"

\* --------------------------------------------------------------- the state
VARIABLES
    currentConfig,   \* RelayConfig | null
    destinations,    \* StreamDestination[]
    currentStatus,   \* RelayStatus
    kv,              \* the durable generic_data records
    live,            \* remote broadcasts / live events that are live now
    now,             \* wall clock, ms
    faults,          \* store requests that have failed so far
    restarts,        \* process restarts so far
    inflight,        \* the async function that is suspended at an await, if any
    sm               \* the state manager: its backend, its records and its cache

vars == <<currentConfig, destinations, currentStatus, kv, live, now, faults, restarts,
          inflight, sm>>

\* RelayConfig | null
NullConfig == [isNull |-> TRUE, bitrate |-> 0, resolution |-> ""]
Configs == { [isNull |-> FALSE, bitrate |-> 2500, resolution |-> "720p"] }

\* platforms[p] === undefined
NoEntry == [present |-> FALSE, isStreaming |-> FALSE, streamId |-> NoId,
            startedAt |-> NoTime, error |-> ""]

\* { isStreaming: true, streamId, startedAt: new Date() }
StreamingEntry(id, t) == [present |-> TRUE, isStreaming |-> TRUE, streamId |-> id,
                          startedAt |-> t, error |-> ""]

\* { isStreaming: false, error }
FailedEntry(msg) == [present |-> TRUE, isStreaming |-> FALSE, streamId |-> NoId,
                     startedAt |-> NoTime, error |-> msg]

\* { isStreaming: false }
StoppedEntry == [present |-> TRUE, isStreaming |-> FALSE, streamId |-> NoId,
                 startedAt |-> NoTime, error |-> ""]

\* let currentStatus = { isActive: false, platforms: {} }
InitialStatus == [isActive |-> FALSE, startedAt |-> NoTime, duration |-> NoTime,
                  platforms |-> [p \in Platforms |-> NoEntry], error |-> ""]

\* no async function is suspended; else op names it, step is the await initialize
\* is at, rest are the enabled destinations startStream has still to attempt, and
\* saved is initialize's local savedStatus
Idle == [op |-> "none", step |-> 0, rest |-> <<>>, saved |-> InitialStatus]

\* the generic_data namespace before anything was saved
EmptyKv == [relay_config |-> <<>>, stream_destinations |-> <<>>, stream_status |-> <<>>]

\* ----------------------------------------------------------------- helpers
\* Array.prototype.filter
RECURSIVE SelectDests(_, _, _)
SelectDests(ds, platform, accountId) ==
    IF ds = <<>> THEN <<>>
    ELSE LET d == Head(ds)
             rest == SelectDests(Tail(ds), platform, accountId)
         IN IF d.platform = platform /\ d.accountId = accountId
            THEN rest ELSE <<d>> \o rest

\* a fan-out list that takes every destination, enabled or not
EnabledDestinationsAll(ds) == ds

\* destinations.filter(d => d.enabled)
RECURSIVE EnabledDestinations(_)
EnabledDestinations(ds) ==
    IF ds = <<>> THEN <<>>
    ELSE IF Head(ds).enabled THEN <<Head(ds)>> \o EnabledDestinations(Tail(ds))
         ELSE EnabledDestinations(Tail(ds))

\* destinations.findIndex(...); 0 when there is none
FindIndex(ds, platform, accountId) ==
    LET hits == {i \in 1..Len(ds) : ds[i].platform = platform /\ ds[i].accountId = accountId}
    IN IF hits = {} THEN 0 ELSE CHOOSE i \in hits : \A j \in hits : i <= j

\* destinations.find(d => d.platform === p && (accountId ? d.accountId === accountId : true));
\* 0 when there is none
FindForStop(ds, platform, accountId) ==
    LET hits == {i \in 1..Len(ds) :
                    /\ ds[i].platform = platform
                    /\ (accountId # NoAccount => ds[i].accountId = accountId)}
    IN IF hits = {} THEN 0 ELSE CHOOSE i \in hits : \A j \in hits : i <= j


\* the orchestrator's module state, the store and the remote platforms, with the
\* remote calls, store writes and per-destination attempts a handler makes
World == [config |-> currentConfig, destinations |-> destinations,
          status |-> currentStatus, kv |-> kv, live |-> live,
          calls |-> <<>>, writes |-> <<>>, attempts |-> <<>>, threw |-> "",
          failed |-> 0]

\* the ids of remote resources that are live or that a status record, in memory
\* or persisted, still names
UsedIds(w) ==
    {b.id : b \in w.live}
    \cup {w.status.platforms[p].streamId : p \in Platforms}
    \cup (IF w.kv.stream_status = <<>> THEN {}
         ELSE {w.kv.stream_status[1].platforms[p].streamId : p \in Platforms})

\* the id the platform gives to the next resource it creates: ids are opaque to
\* the orchestrator, so the least id nobody refers to any more stands for a new one
\* (one fan-out creates at most one resource per platform)
FreshId(w) ==
    LET free == (1..(MaxIds + Cardinality(Platforms))) \ UsedIds(w)
    IN CHOOSE i \in free : \A j \in free : i <= j

\* one remote API request as the platform sees it
RemoteCall(api, platform, accountId, id, ok) ==
    [api |-> api, platform |-> platform, accountId |-> accountId, id |-> id, ok |-> ok]

\* ------------------------------------------------------------- the store
\* ExtendedStateManager.saveData: kv.set, which may throw
SaveData(w, key, data, ok) ==
    IF ok
    THEN [w EXCEPT !.kv[key] = <<data>>,
                   !.writes = Append(@, [key |-> key, ok |-> TRUE])]
    ELSE [w EXCEPT !.writes = Append(@, [key |-> key, ok |-> FALSE]),
                   !.threw = ErrStorage, !.failed = @ + 1]

\* --------------------------------------------------- platform start sequences
YouTubeSteps == <<"createBroadcast", "createStream", "bindStreamToBroadcast", "startBroadcast">>
LinkedInSteps == <<"createLiveEvent", "transitionREADY", "transitionPUBLISHED">>

\* what the remote side answers to one start sequence: failAt = 0 when every
\* request succeeds, else the first request that fails and its message (the
\* account lookup of the first request, or the platform rejecting a request)
Outcomes(platform) ==
    LET n == IF platform = "youtube" THEN Len(YouTubeSteps) ELSE Len(LinkedInSteps)
    IN {[failAt |-> 0, why |-> ""]} \cup
       {[failAt |-> k, why |-> ErrRemoteApi] : k \in 1..n}

\* the requests of one start sequence up to and including the failing one
SequenceCalls(steps, platform, accountId, id, oc) ==
    LET n == IF oc.failAt = 0 THEN Len(steps) ELSE oc.failAt
    IN [k \in 1..n |-> RemoteCall(steps[k], platform, accountId,
                                   IF k = 1 THEN NoId ELSE id, k # oc.failAt)]

\* a startYouTubeStream that goes on to start the broadcast when the bind failed
StartYouTubeStreamUnbound(w, destination, oc, t) ==
    LET id == FreshId(w)
        log == SequenceCalls(YouTubeSteps, "youtube", destination.accountId, id, oc)
        start == RemoteCall("startBroadcast", "youtube", destination.accountId, id, TRUE)
    IN IF oc.failAt = 0 \/ oc.failAt = 3
       THEN [w EXCEPT !.status.platforms["youtube"] = StreamingEntry(id, t),
                      !.live = @ \cup {[id |-> id, platform |-> "youtube",
                                        accountId |-> destination.accountId]},
                      !.calls = @ \o (IF oc.failAt = 3 THEN Append(log, start) ELSE log),
                      !.threw = ""]
       ELSE [w EXCEPT !.status.platforms["youtube"] = FailedEntry(oc.why),
                      !.calls = @ \o log,
                      !.threw = oc.why]

\* startYouTubeStream
StartYouTubeStream(w, destination, oc, t) ==
    LET id == FreshId(w)
        log == SequenceCalls(YouTubeSteps, "youtube", destination.accountId, id, oc)
    IN IF oc.failAt = 0
       THEN [w EXCEPT !.status.platforms["youtube"] = StreamingEntry(id, t),
                      !.live = @ \cup {[id |-> id, platform |-> "youtube",
                                        accountId |-> destination.accountId]},
                      !.calls = @ \o log,
                      !.threw = ""]
       ELSE [w EXCEPT !.status.platforms["youtube"] = FailedEntry(oc.why),
                      !.calls = @ \o log,
                      !.threw = oc.why]

\* a startLinkedInStream that counts an event in READY state as started
StartLinkedInStreamReady(w, destination, oc, t) ==
    LET id == FreshId(w)
        log == SequenceCalls(LinkedInSteps, "linkedin", destination.accountId, id, oc)
    IN IF oc.failAt = 0 \/ oc.failAt = Len(LinkedInSteps)
       THEN [w EXCEPT !.status.platforms["linkedin"] = StreamingEntry(id, t),
                      !.live = @ \cup {[id |-> id, platform |-> "linkedin",
                                        accountId |-> destination.accountId]},
                      !.calls = @ \o log,
                      !.threw = ""]
       ELSE [w EXCEPT !.status.platforms["linkedin"] = FailedEntry(oc.why),
                      !.calls = @ \o log,
                      !.threw = oc.why]

\* startLinkedInStream, with LinkedInClient.startLiveEvent (READY, then PUBLISHED)
StartLinkedInStream(w, destination, oc, t) ==
    LET id == FreshId(w)
        log == SequenceCalls(LinkedInSteps, "linkedin", destination.accountId, id, oc)
    IN IF oc.failAt = 0
       THEN [w EXCEPT !.status.platforms["linkedin"] = StreamingEntry(id, t),
                      !.live = @ \cup {[id |-> id, platform |-> "linkedin",
                                        accountId |-> destination.accountId]},
                      !.calls = @ \o log,
                      !.threw = ""]
       ELSE [w EXCEPT !.status.platforms["linkedin"] = FailedEntry(oc.why),
                      !.calls = @ \o log,
                      !.threw = oc.why]

\* a fan-out whose first failing destination ends the loop
RECURSIVE FanOutAborting(_, _, _, _)
FanOutAborting(w, enabled, ocs, t) ==
    IF enabled = <<>> THEN w
    ELSE LET d == Head(enabled)
             r == IF d.platform = "youtube"
                  THEN StartYouTubeStream(w, d, Head(ocs), t)
                  ELSE StartLinkedInStream(w, d, Head(ocs), t)
             seen == [r EXCEPT !.attempts = Append(@, [platform |-> d.platform,
                                                       accountId |-> d.accountId,
                                                       ok |-> r.threw = ""])]
         IN IF seen.threw = "" THEN FanOutAborting(seen, Tail(enabled), Tail(ocs), t)
            ELSE [seen EXCEPT !.status.platforms[d.platform] = FailedEntry(seen.threw),
                              !.threw = ""]

\* the for loop of startStream over the enabled destinations, with its catch
RECURSIVE FanOut(_, _, _, _)
FanOut(w, enabled, ocs, t) ==
    IF enabled = <<>> THEN w
    ELSE LET d == Head(enabled)
             r == IF d.platform = "youtube"
                  THEN StartYouTubeStream(w, d, Head(ocs), t)
                  ELSE StartLinkedInStream(w, d, Head(ocs), t)
             seen == [r EXCEPT !.attempts = Append(@, [platform |-> d.platform,
                                                       accountId |-> d.accountId,
                                                       ok |-> r.threw = ""])]
             caught == IF seen.threw = "" THEN seen
                       ELSE [seen EXCEPT !.status.platforms[d.platform] = FailedEntry(seen.threw),
                                         !.threw = ""]
         IN FanOut(caught, Tail(enabled), Tail(ocs), t)

\* an outer catch that starts over from an empty status
StartCaughtClearing(w, msg) ==
    [w EXCEPT !.status = [InitialStatus EXCEPT !.error = msg], !.threw = msg]

\* the outer catch of startStream
StartCaught(w, msg) ==
    [w EXCEPT !.status.isActive = FALSE, !.status.error = msg, !.threw = msg]

\* precondition checks that forget the configuration
StartRejectionUnconfigured(w) ==
    IF Len(w.destinations) = 0 THEN ErrNoDestinations ELSE ""

\* the precondition checks of startStream: the message thrown, "" when there is none
StartRejection(w) ==
    IF w.config.isNull THEN ErrNotConfigured
    ELSE IF Len(w.destinations) = 0 THEN ErrNoDestinations
    ELSE ""

\* a startStream that marks the session active only after its fan-out
StartFreshDeferred(w, t) ==
    [w EXCEPT !.status = [isActive |-> FALSE, startedAt |-> t, duration |-> NoTime,
                          platforms |-> [p \in Platforms |-> NoEntry], error |-> ""]]

\* currentStatus = { isActive: true, startedAt: new Date(), platforms: {} }, which
\* startStream assigns before its first await
StartFresh(w, t) ==
    [w EXCEPT !.status = [isActive |-> TRUE, startedAt |-> t, duration |-> NoTime,
                          platforms |-> [p \in Platforms |-> NoEntry], error |-> ""]]

\* an end of startStream that carries the error and the duration of the record
\* persisted before over into the status it saves
StartFinishMerging(w, saveOk) ==
    LET prev == w.kv.stream_status
        merged == IF prev = <<>> THEN w
                  ELSE [w EXCEPT !.status.error = prev[1].error,
                                 !.status.duration = prev[1].duration]
        saved == SaveData(merged, "stream_status", merged.status, saveOk)
    IN IF saved.threw = "" THEN saved ELSE StartCaught(saved, saved.threw)

\* the end of startStream: the status is saved, and the outer catch if that throws
StartFinish(w, saveOk) ==
    LET saved == SaveData(w, "stream_status", w.status, saveOk)
    IN IF saved.threw = "" THEN saved ELSE StartCaught(saved, saved.threw)

\* an accepted startStream that keeps the platform entries of the session before
StartAcceptedKeeping(w, ocs, saveOk, t) ==
    LET fresh == [StartFresh(w, t) EXCEPT !.status.platforms = w.status.platforms]
        fanned == FanOut(fresh, EnabledDestinations(fresh.destinations), ocs, t)
    IN StartFinish(fanned, saveOk)

\* startStream once its preconditions hold: the new status, the fan-out, the save
StartAccepted(w, ocs, saveOk, t) ==
    LET fresh == StartFresh(w, t)
        fanned == FanOut(fresh, EnabledDestinations(fresh.destinations), ocs, t)
    IN StartFinish(fanned, saveOk)

\* a startStream that starts again over a running session
StartStreamAgain(w, ocs, saveOk, t) ==
    IF StartRejection(w) # "" THEN StartCaught(w, StartRejection(w))
    ELSE StartAccepted(w, ocs, saveOk, t)

\* startStream
StartStream(w, ocs, saveOk, t) ==
    IF w.status.isActive THEN w
    ELSE IF StartRejection(w) # "" THEN StartCaught(w, StartRejection(w))
    ELSE StartAccepted(w, ocs, saveOk, t)

\* --------------------------------------------------------------- stopping
EndApi(platform) == IF platform = "youtube" THEN "endBroadcast" ELSE "endLiveEvent"

\* stopPlatformStream; endErr = "" when the remote end request succeeds
StopPlatformStream(w, platform, accountId, endErr) ==
    LET e == w.status.platforms[platform]
        i == FindForStop(w.destinations, platform, accountId)
    IN IF ~(e.present /\ e.isStreaming) THEN w
       ELSE IF i = 0 THEN [w EXCEPT !.threw = ErrDestinationNotFound]
       ELSE IF e.streamId = NoId
            THEN [w EXCEPT !.status.platforms[platform] = StoppedEntry]
       ELSE LET call == RemoteCall(EndApi(platform), platform,
                                   w.destinations[i].accountId, e.streamId, endErr = "")
            IN IF endErr = ""
               THEN [w EXCEPT !.calls = Append(@, call),
                              !.live = {b \in @ : b.id # e.streamId},
                              !.status.platforms[platform] = StoppedEntry]
               ELSE [w EXCEPT !.calls = Append(@, call), !.threw = endErr]

\* a duration rounded to the nearest second
DurationRounded(startedAt, endTime) == (endTime - startedAt + 500) \div 1000

\* Math.floor((endTime.getTime() - startedAt.getTime()) / 1000)
Duration(startedAt, endTime) == (endTime - startedAt) \div 1000

\* stopStream on an active session: the platform stops, the status update, the save
StopActive(w, endYouTube, endLinkedIn, saveOk, t) ==
    LET yt == w.status.platforms["youtube"]
        w1 == IF yt.present /\ yt.isStreaming
              THEN StopPlatformStream(w, "youtube", NoAccount, endYouTube) ELSE w
        li == w1.status.platforms["linkedin"]
        w2 == IF li.present /\ li.isStreaming
              THEN StopPlatformStream(w1, "linkedin", NoAccount, endLinkedIn) ELSE w1
        w3 == [w2 EXCEPT !.status.isActive = FALSE,
                         !.status.duration =
                             IF w2.status.startedAt # NoTime
                             THEN Duration(w2.status.startedAt, t) ELSE @]
    IN IF w1.threw # "" THEN w1
       ELSE IF w2.threw # "" THEN w2
       ELSE SaveData(w3, "stream_status", w3.status, saveOk)

\* a stopStream that does not look at isActive
StopStreamUnguarded(w, endYouTube, endLinkedIn, saveOk, t) ==
    StopActive(w, endYouTube, endLinkedIn, saveOk, t)

\* stopStream
StopStream(w, endYouTube, endLinkedIn, saveOk, t) ==
    IF ~w.status.isActive THEN w
    ELSE StopActive(w, endYouTube, endLinkedIn, saveOk, t)

\* ----------------------------------------------------- destination registry
\* an update that replaces the record by the caller's
MergeReplacing(existing, destination) == destination

\* { ...existing, ...destination }: a field the caller omitted keeps its old value
MergeDestination(existing, destination) ==
    [platform |-> destination.platform, accountId |-> destination.accountId,
     enabled |-> destination.enabled,
     streamKey |-> IF destination.streamKey = Absent
                   THEN existing.streamKey ELSE destination.streamKey]

\* an addDestination whose update moves the record to the end of the list
AddDestinationMoving(w, destination, saveOk) ==
    LET existingIndex == FindIndex(w.destinations, destination.platform, destination.accountId)
        w1 == IF existingIndex > 0
              THEN [w EXCEPT !.destinations =
                        Append(SelectDests(@, destination.platform, destination.accountId),
                               MergeDestination(@[existingIndex], destination))]
              ELSE [w EXCEPT !.destinations = Append(@, destination)]
    IN SaveData(w1, "stream_destinations", w1.destinations, saveOk)

\* addDestination
AddDestination(w, destination, saveOk) ==
    LET existingIndex == FindIndex(w.destinations, destination.platform, destination.accountId)
        w1 == IF existingIndex > 0
              THEN [w EXCEPT !.destinations[existingIndex] = MergeDestination(@, destination)]
              ELSE [w EXCEPT !.destinations = Append(@, destination)]
    IN SaveData(w1, "stream_destinations", w1.destinations, saveOk)

\* removeDestination
RemoveDestination(w, platform, accountId, saveOk, endErr) ==
    LET w1 == [w EXCEPT !.destinations = SelectDests(@, platform, accountId)]
        w2 == SaveData(w1, "stream_destinations", w1.destinations, saveOk)
        e == w2.status.platforms[platform]
    IN IF w2.threw # "" THEN w2
       ELSE IF w2.status.isActive /\ e.present /\ e.streamId # NoId
            THEN StopPlatformStream(w2, platform, accountId, endErr)
            ELSE w2

\* a configureRelay that assigns the config before it is persisted
ConfigureRelayEager(w, config, saveOk) ==
    [SaveData(w, "relay_config", config, saveOk) EXCEPT !.config = config]

\* configureRelay
ConfigureRelay(w, config, saveOk) ==
    LET w1 == SaveData(w, "relay_config", config, saveOk)
    IN IF w1.threw # "" THEN w1 ELSE [w1 EXCEPT !.config = config]

\* getRelayStatus: { ...currentStatus }
GetRelayStatus(w) == w.status

\* the caller assigns through the value getRelayStatus returned. The spread makes
\* a new object for the top-level fields only: its platforms property is the very
\* object currentStatus.platforms refers to, so a write to returned.platforms[p]
\* is a write to the module's status, and a write to a top-level field is not
CallerWrite(w, field, platform, entry) ==
    IF field = "platforms" THEN [w EXCEPT !.status.platforms[platform] = entry]
    ELSE w


\* ------------------------------------------------------- startup recovery
\* an initialize that takes the persisted status as it is
InitializeTrusting(w, failAt) ==
    LET w1 == IF w.kv.relay_config # <<>>
              THEN [w EXCEPT !.config = w.kv.relay_config[1]] ELSE w
        w2 == IF w1.kv.stream_destinations # <<>>
              THEN [w1 EXCEPT !.destinations = w1.kv.stream_destinations[1]] ELSE w1
    IN IF w2.kv.stream_status = <<>> THEN w2
       ELSE [w2 EXCEPT !.status = w2.kv.stream_status[1]]

\* initialize, run on the module state of a fresh process; failAt names the store
\* request that throws (1..3 the getData calls, 4 the saveData), 0 when none does
Initialize(w, failAt) ==
    LET w1 == IF w.kv.relay_config # <<>>
              THEN [w EXCEPT !.config = w.kv.relay_config[1]] ELSE w
        w2 == IF w1.kv.stream_destinations # <<>>
              THEN [w1 EXCEPT !.destinations = w1.kv.stream_destinations[1]] ELSE w1
        savedStatus == w2.kv.stream_status[1]
        interrupted == [savedStatus EXCEPT !.isActive = FALSE, !.error = ErrInterrupted]
        w3 == SaveData(w2, "stream_status", interrupted, failAt # 4)
    IN IF failAt = 1 THEN [w EXCEPT !.failed = 1]
       ELSE IF failAt = 2 THEN [w1 EXCEPT !.failed = 1]
       ELSE IF failAt = 3 THEN [w2 EXCEPT !.failed = 1]
       ELSE IF w2.kv.stream_status = <<>> THEN w2
       ELSE IF ~savedStatus.isActive THEN [w2 EXCEPT !.status = savedStatus]
       ELSE IF w3.threw # "" THEN [w3 EXCEPT !.threw = ""]
       ELSE [w3 EXCEPT !.status = interrupted]

\* the module-level state of a process that has just been loaded
FreshProcess == [World EXCEPT !.config = NullConfig, !.destinations = <<>>,
                              !.status = InitialStatus]

\* ------------------------------------------------------ the state manager
\* StateManager (Deno KV) and MockStateManager (in-memory Map), each with its
\* cache Map and cacheExpiry Map. A record is known by its version, 0 when the
\* key is absent; a list of accounts by the version of the one account in it,
\* 0 for the empty list.
Variants == {"durable", "memory"}

\* ["accounts", platform, id], ["stream_status", "current"] and
\* ["generic_data", "stream_status"]
RecordKeys == {"account", "status", "data"}

\* the cache keys: a record's own, ["accounts"] and ["accounts", platform]
CacheKeys == RecordKeys \cup {"accounts", "accountsByPlatform"}

\* DEFAULT_CACHE_TTL
DefaultCacheTtl == 5 * 60 * 1000

\* the ttl StateManager.getStreamStatus gives to setCachedValue
StatusCacheTtl == 60 * 1000

\* a key that is in neither cache Map
NoCache == [set |-> FALSE, value |-> 0, expiry |-> 0]

\* a state manager as its constructor leaves it: the durable one has called
\* initKv and not heard back, the in-memory one has initialized = true. factory is
\* what StateManagerFactory.create has returned: with Deno.openKv it is suspended
\* in createExtended ("creating"), without it the catch has made the in-memory store
NewStore(variant) ==
    [variant |-> variant,
     factory |-> IF variant = "durable" THEN "creating" ELSE "memory",
     kvState |-> IF variant = "durable" THEN "opening" ELSE "open",
     stored |-> [k \in RecordKeys |-> 0],
     cache |-> [k \in CacheKeys |-> NoCache],
     pending |-> "none",
     polls |-> 0,
     factoryPolls |-> 0]

\* a cache that still serves an entry at the instant it expires
GetCachedValueInclusive(s, key, t) ==
    LET e == s.cache[key]
    IN IF e.set /\ e.expiry >= t
       THEN [s |-> s, hit |-> TRUE, value |-> e.value]
       ELSE [s |-> [s EXCEPT !.cache[key] = NoCache], hit |-> FALSE, value |-> 0]

\* getCachedValue: the entry while expiry > Date.now(), else it is removed
GetCachedValue(s, key, t) ==
    LET e == s.cache[key]
    IN IF e.set /\ e.expiry > t
       THEN [s |-> s, hit |-> TRUE, value |-> e.value]
       ELSE [s |-> [s EXCEPT !.cache[key] = NoCache], hit |-> FALSE, value |-> 0]

\* setCachedValue
SetCachedValue(s, key, value, t, ttl) ==
    [s EXCEPT !.cache[key] = [set |-> TRUE, value |-> value, expiry |-> t + ttl]]

\* clearCacheKey
ClearCacheKey(s, key) == [s EXCEPT !.cache[key] = NoCache]

\* the ttl a read gives to the entry it caches
CacheTtl(s, key) ==
    IF key = "status" /\ s.variant = "durable" THEN StatusCacheTtl ELSE DefaultCacheTtl

\* getAccount, getStreamStatus, getData: the cache first, then the record, which
\* is cached when there is one
GetRecord(s, key, t) ==
    LET c == GetCachedValue(s, key, t)
        v == c.s.stored[key]
    IN IF c.hit THEN [s |-> c.s, value |-> c.value]
       ELSE IF v # 0 THEN [s |-> SetCachedValue(c.s, key, v, t, CacheTtl(s, key)), value |-> v]
       ELSE [s |-> c.s, value |-> 0]

GetAccount(s, t) == GetRecord(s, "account", t)

GetStreamStatus(s, t) == GetRecord(s, "status", t)

GetData(s, t) == GetRecord(s, "data", t)

\* getAllAccounts, getAccountsByPlatform: the cache first, then kv.list over the
\* prefix; the list is cached, also when it is empty
GetList(s, key, t) ==
    LET c == GetCachedValue(s, key, t)
        v == c.s.stored["account"]
    IN IF c.hit THEN [s |-> c.s, value |-> c.value]
       ELSE [s |-> SetCachedValue(c.s, key, v, t, DefaultCacheTtl), value |-> v]

GetAllAccounts(s, t) == GetList(s, "accounts", t)

GetAccountsByPlatform(s, t) == GetList(s, "accountsByPlatform", t)

\* saveAccount: kv.set, then the record's cache key and ["accounts"] are cleared
SaveAccount(s, v) ==
    ClearCacheKey(ClearCacheKey([s EXCEPT !.stored["account"] = v], "account"), "accounts")

\* saveStreamStatus
SaveStreamStatus(s, v) == ClearCacheKey([s EXCEPT !.stored["status"] = v], "status")

\* saveData of the state manager itself, with its cache: kv.set, then fullKey is
\* cleared (and ["generic_data"], which no read ever sets)
SaveRecordData(s, v) == ClearCacheKey([s EXCEPT !.stored["data"] = v], "data")

\* ----------------------------------------------------- scheduled events
\* ScheduledEvent.status
EventStatuses == {"scheduled", "live", "completed", "canceled"}

\* scheduledStartTime of the events callers save, ms
EventStarts == {60000, 180000}

ScheduledEvents ==
    {[id |-> i, status |-> st, scheduledStartTime |-> t] :
        i \in 1..MaxEvents, st \in EventStatuses, t \in EventStarts}

\* what getAllScheduledEvents can return: the stored events, one per id
EventLists ==
    {<<>>} \cup {<<e>> : e \in ScheduledEvents}
    \cup {<<e1, e2>> : e1 \in {e \in ScheduledEvents : e.id = 1},
                        e2 \in {e \in ScheduledEvents : e.id = 2}}

\* the filter of getUpcomingEvents: StateManager keeps status === "scheduled",
\* MockStateManager keeps what is neither "canceled" nor "completed"
IsUpcoming(variant, event, t) ==
    /\ event.scheduledStartTime > t
    /\ IF variant = "durable" THEN event.status = "scheduled"
       ELSE event.status # "canceled" /\ event.status # "completed"

RECURSIVE FilterUpcoming(_, _, _)
FilterUpcoming(variant, events, t) ==
    IF events = <<>> THEN <<>>
    ELSE IF IsUpcoming(variant, Head(events), t)
         THEN <<Head(events)>> \o FilterUpcoming(variant, Tail(events), t)
         ELSE FilterUpcoming(variant, Tail(events), t)

\* event goes before the first element that starts later (Array.prototype.sort is
\* stable)
RECURSIVE InsertByStart(_, _)
InsertByStart(event, sorted) ==
    IF sorted = <<>> THEN <<event>>
    ELSE IF Head(sorted).scheduledStartTime > event.scheduledStartTime
         THEN <<event>> \o sorted
         ELSE <<Head(sorted)>> \o InsertByStart(event, Tail(sorted))

\* .sort((a, b) => a.scheduledStartTime.getTime() - b.scheduledStartTime.getTime())
RECURSIVE SortByStart(_)
SortByStart(events) ==
    IF events = <<>> THEN <<>>
    ELSE InsertByStart(events[Len(events)], SortByStart(SubSeq(events, 1, Len(events) - 1)))

\* getUpcomingEvents(limit) over what getAllScheduledEvents returned; limit = 0
\* stands for no limit (limit ? slice(0, limit) : all)
GetUpcomingEvents(variant, allEvents, t, limit) ==
    LET upcoming == SortByStart(FilterUpcoming(variant, allEvents, t))
    IN IF limit = 0 \/ limit >= Len(upcoming) THEN upcoming
       ELSE SubSeq(upcoming, 1, limit)

\* ------------------------------------------------------------ the actions
\* the (platform, accountId) pairs the callers use
Identities == {<<"youtube", "acc1">>, <<"linkedin", "acc1">>}

DestinationInputs ==
    {[platform |-> id[1], accountId |-> id[2], enabled |-> en, streamKey |-> sk] :
        id \in Identities, en \in BOOLEAN, sk \in StreamKeys}

\* the remote answers to the start sequences of the enabled destinations, in order
OutcomeSeqs(enabled) ==
    {ocs \in [1..Len(enabled) -> Outcomes("youtube") \cup Outcomes("linkedin")] :
        \A i \in 1..Len(enabled) : ocs[i] \in Outcomes(enabled[i].platform)}

\* the remote answers to an end request
EndErrors == {"", ErrRemoteApi}

\* the platforms can still hand out an id for every enabled destination
CanStart == Cardinality((1..MaxIds) \ UsedIds(World)) >= Len(EnabledDestinations(destinations))

\* the effects of a handler, or of a part of one, become the next state
Effects(w) ==
    /\ currentConfig' = w.config
    /\ destinations' = w.destinations
    /\ currentStatus' = w.status
    /\ kv' = w.kv
    /\ live' = w.live
    /\ faults + w.failed <= MaxStoreFaults
    /\ faults' = faults + w.failed
    /\ UNCHANGED <<now, sm>>

\* a handler runs from its call to its return; what is suspended stays suspended
Commit(w) ==
    /\ Effects(w)
    /\ UNCHANGED inflight

DoConfigureRelay ==
    \E config \in Configs, saveOk \in BOOLEAN :
        /\ Commit(ConfigureRelay(World, config, saveOk))
        /\ UNCHANGED restarts

DoAddDestination ==
    \E destination \in DestinationInputs, saveOk \in BOOLEAN :
        /\ Commit(AddDestination(World, destination, saveOk))
        /\ UNCHANGED restarts

DoRemoveDestination ==
    \E id \in Identities, saveOk \in BOOLEAN, endErr \in EndErrors :
        /\ Commit(RemoveDestination(World, id[1], id[2], saveOk, endErr))
        /\ UNCHANGED restarts

DoStartStream ==
    /\ CanStart
    /\ \E ocs \in OutcomeSeqs(EnabledDestinations(destinations)), saveOk \in BOOLEAN :
           Commit(StartStream(World, ocs, saveOk, now))
    /\ UNCHANGED restarts

DoStopStream ==
    \E endYouTube \in EndErrors, endLinkedIn \in EndErrors, saveOk \in BOOLEAN :
        /\ Commit(StopStream(World, endYouTube, endLinkedIn, saveOk, now))
        /\ UNCHANGED restarts

\* getRelayStatus hands out a copy and changes nothing
DoGetRelayStatus ==
    /\ GetRelayStatus(World) = currentStatus
    /\ UNCHANGED vars

\* the process is restarted: module state is lost, the durable store and the remote
\* platforms are not, and the freshly loaded module runs initialize
Restart ==
    /\ restarts < MaxRestarts
    /\ restarts' = restarts + 1
    /\ \E failAt \in 0..4 : Commit(Initialize(FreshProcess, failAt))

\* time passes
Tick ==
    \E d \in TickSteps :
        /\ now + d <= MaxNow
        /\ now' = now + d
        /\ UNCHANGED <<currentConfig, destinations, currentStatus, kv, live, faults, restarts,
                       inflight, sm>>

\* the orchestrator after the module was loaded on an empty store
InitRelay ==
    /\ currentConfig = NullConfig
    /\ destinations = <<>>
    /\ currentStatus = InitialStatus
    /\ kv = EmptyKv
    /\ live = {}
    /\ now = 0
    /\ faults = 0
    /\ restarts = 0
    /\ inflight = Idle

Init ==
    /\ InitRelay
    /\ sm = [NewStore("durable") EXCEPT !.kvState = "open", !.factory = "durable"]

Next ==
    \/ DoConfigureRelay
    \/ DoAddDestination
    \/ DoRemoveDestination
    \/ DoStartStream
    \/ DoStopStream
    \/ DoGetRelayStatus
    \/ Restart
    \/ Tick

Spec == Init /\ [][Next]_vars

\* ------------------------------------------------- the registry on its own
\* addDestination and removeDestination from an empty registry, with two accounts
\* on one platform and callers that give a stream key or leave it out
RegistryIdentities == Identities \cup {<<"youtube", "acc2">>}

RegistryStreamKeys == {Absent, "key1"}

RegistryInputs ==
    {[platform |-> id[1], accountId |-> id[2], enabled |-> en, streamKey |-> sk] :
        id \in RegistryIdentities, en \in BOOLEAN, sk \in RegistryStreamKeys}

RegistryAdd ==
    \E destination \in RegistryInputs, saveOk \in BOOLEAN :
        /\ Commit(AddDestination(World, destination, saveOk))
        /\ UNCHANGED restarts

RegistryRemove ==
    \E id \in RegistryIdentities, saveOk \in BOOLEAN :
        /\ Commit(RemoveDestination(World, id[1], id[2], saveOk, ""))
        /\ UNCHANGED restarts

NextRegistry == RegistryAdd \/ RegistryRemove

SpecRegistry == Init /\ [][NextRegistry]_vars

\* ------------------------------------------- calls while another is suspended
\* The exported functions are async and take no lock: while one is suspended at an
\* await, any other may be called and runs on the same module state. A call that is
\* served runs here from its call to its return, with a store that answers.
CallConfigureRelay ==
    \E config \in Configs :
        /\ Commit(ConfigureRelay(World, config, TRUE))
        /\ UNCHANGED restarts

CallAddDestination ==
    \E destination \in DestinationInputs :
        /\ Commit(AddDestination(World, destination, TRUE))
        /\ UNCHANGED restarts

CallRemoveDestination ==
    \E id \in Identities, endErr \in EndErrors :
        /\ Commit(RemoveDestination(World, id[1], id[2], TRUE, endErr))
        /\ UNCHANGED restarts

CallStartStream ==
    /\ CanStart
    /\ \E ocs \in OutcomeSeqs(EnabledDestinations(destinations)) :
           Commit(StartStream(World, ocs, TRUE, now))
    /\ UNCHANGED restarts

CallStopStream ==
    \E endYouTube \in EndErrors, endLinkedIn \in EndErrors :
        /\ Commit(StopStream(World, endYouTube, endLinkedIn, TRUE, now))
        /\ UNCHANGED restarts

\* startStream up to its first await: the guard, the precondition checks and the
\* new status; the enabled destinations are filtered once, here
BeginStartStream ==
    /\ inflight = Idle
    /\ ~currentStatus.isActive
    /\ StartRejection(World) = ""
    /\ Effects(StartFresh(World, now))
    /\ inflight' = [Idle EXCEPT !.op = "startStream",
                                !.rest = EnabledDestinations(destinations)]
    /\ UNCHANGED restarts

\* startStream resumes with the answer of one destination's start sequence
ResumeStartStream ==
    /\ inflight.op = "startStream"
    /\ inflight.rest # <<>>
    /\ (1..MaxIds) \ UsedIds(World) # {}
    /\ \E oc \in Outcomes(Head(inflight.rest).platform) :
           Effects(FanOut(World, <<Head(inflight.rest)>>, <<oc>>, now))
    /\ inflight' = [inflight EXCEPT !.rest = Tail(@)]
    /\ UNCHANGED restarts

\* startStream after its loop: the status is saved and the call returns
FinishStartStream ==
    /\ inflight.op = "startStream"
    /\ inflight.rest = <<>>
    /\ Effects(StartFinish(World, TRUE))
    /\ inflight' = Idle
    /\ UNCHANGED restarts

NextConc ==
    \/ BeginStartStream
    \/ ResumeStartStream
    \/ FinishStartStream
    \/ CallConfigureRelay
    \/ CallAddDestination
    \/ CallRemoveDestination
    \/ CallStartStream
    \/ CallStopStream
    \/ DoGetRelayStatus

SpecConc == Init /\ [][NextConc]_vars

\* ------------------------------------------------ initialize, await by await
\* initialize() is called at module load and not awaited (initialize().catch(..)):
\* the module's exports can be called while it is suspended at one of its store
\* requests. One step is one request answered and the code up to the next await:
\* step 1 getData(relay_config), 2 getData(stream_destinations),
\* 3 getData(stream_status), 4 saveData(stream_status, savedStatus).
InitializeStep(w, fl) ==
    IF fl.step = 1
    THEN [w |-> IF w.kv.relay_config # <<>>
                THEN [w EXCEPT !.config = w.kv.relay_config[1]] ELSE w,
          inflight |-> [fl EXCEPT !.step = 2]]
    ELSE IF fl.step = 2
    THEN [w |-> IF w.kv.stream_destinations # <<>>
                THEN [w EXCEPT !.destinations = w.kv.stream_destinations[1]] ELSE w,
          inflight |-> [fl EXCEPT !.step = 3]]
    ELSE IF fl.step = 3
    THEN IF w.kv.stream_status = <<>> THEN [w |-> w, inflight |-> Idle]
         ELSE LET savedStatus == w.kv.stream_status[1]
              IN IF ~savedStatus.isActive
                 THEN [w |-> [w EXCEPT !.status = savedStatus], inflight |-> Idle]
                 ELSE [w |-> w,
                       inflight |-> [fl EXCEPT !.step = 4,
                                               !.saved = [savedStatus EXCEPT
                                                             !.isActive = FALSE,
                                                             !.error = ErrInterrupted]]]
    ELSE [w |-> [SaveData(w, "stream_status", fl.saved, TRUE) EXCEPT !.status = fl.saved],
          inflight |-> Idle]

\* the process is restarted and the freshly loaded module calls initialize, which
\* runs up to its first await
StartupRestart ==
    /\ restarts < MaxRestarts
    /\ inflight = Idle
    /\ restarts' = restarts + 1
    /\ Effects(FreshProcess)
    /\ inflight' = [Idle EXCEPT !.op = "initialize", !.step = 1]

\* initialize resumes with the answer of the store request it was waiting for
StartupStep ==
    /\ inflight.op = "initialize"
    /\ LET r == InitializeStep(World, inflight)
       IN /\ Effects(r.w)
          /\ inflight' = r.inflight
    /\ UNCHANGED restarts

NextStartup ==
    \/ StartupRestart
    \/ StartupStep
    \/ CallConfigureRelay
    \/ CallAddDestination
    \/ CallRemoveDestination
    \/ CallStartStream
    \/ CallStopStream
    \/ DoGetRelayStatus

SpecStartup == Init /\ [][NextStartup]_vars

\* ------------------------------------------------ the state manager in use
\* One state manager, durable or in-memory, and its callers: saves of the next
\* version of the account, the stream status and the generic stream_status record,
\* the reads, and the clock. The orchestrator is idle meanwhile.
StoreTickSteps == {60000}

relay == <<currentConfig, destinations, currentStatus, kv, live, faults, restarts, inflight>>

\* Deno.openKv resolves: initialized = true
KvOpen ==
    /\ sm.kvState = "opening"
    /\ sm' = [sm EXCEPT !.kvState = "open"]
    /\ UNCHANGED <<relay, now>>

\* Deno.openKv rejects: initKv throws and initialized stays false
KvFail ==
    /\ sm.kvState = "opening"
    /\ sm' = [sm EXCEPT !.kvState = "failed"]
    /\ UNCHANGED <<relay, now>>

\* saveData or getData is called before the store is initialized: the call
\* suspends in ensureInitialized, which polls the flag from a 100 ms interval timer
CallUninitialized ==
    /\ sm.kvState # "open"
    /\ sm.pending = "none"
    /\ \E op \in {"saveData", "getData"} : sm' = [sm EXCEPT !.pending = op]
    /\ UNCHANGED <<relay, now>>

\* the interval timer of ensureInitialized fires: the call goes on when the flag is
\* set, and keeps waiting when it is not
Poll ==
    /\ sm.pending # "none"
    /\ sm' = IF sm.kvState # "open" THEN [sm EXCEPT !.polls = 1 - @]
             ELSE IF sm.pending = "saveData"
                  THEN [SaveRecordData(sm, sm.stored["data"] + 1) EXCEPT !.pending = "none"]
                  ELSE [GetData(sm, now).s EXCEPT !.pending = "none"]
    /\ UNCHANGED <<relay, now>>

\* createExtended awaits ensureInitialized: its interval timer fires, and create
\* returns the durable store when the flag is set and keeps waiting when it is not
FactoryPoll ==
    /\ sm.factory = "creating"
    /\ sm' = IF sm.kvState = "open" THEN [sm EXCEPT !.factory = "durable"]
             ELSE [sm EXCEPT !.factoryPolls = 1 - @]
    /\ UNCHANGED <<relay, now>>

\* the factory has handed out the store, it is initialized and no call is waiting
Ready == sm.factory # "creating" /\ sm.kvState = "open" /\ sm.pending = "none"

StoreSaveAccount ==
    /\ Ready
    /\ sm.stored["account"] < MaxVersion
    /\ sm' = SaveAccount(sm, sm.stored["account"] + 1)
    /\ UNCHANGED <<relay, now>>

StoreSaveStreamStatus ==
    /\ Ready
    /\ sm.stored["status"] < MaxVersion
    /\ sm' = SaveStreamStatus(sm, sm.stored["status"] + 1)
    /\ UNCHANGED <<relay, now>>

StoreSaveData ==
    /\ Ready
    /\ sm.stored["data"] < MaxVersion
    /\ sm' = SaveRecordData(sm, sm.stored["data"] + 1)
    /\ UNCHANGED <<relay, now>>

StoreGetRecord ==
    /\ Ready
    /\ \E key \in RecordKeys : sm' = GetRecord(sm, key, now).s
    /\ UNCHANGED <<relay, now>>

StoreGetList ==
    /\ Ready
    /\ \E key \in {"accounts", "accountsByPlatform"} : sm' = GetList(sm, key, now).s
    /\ UNCHANGED <<relay, now>>

StoreTick ==
    /\ \E d \in StoreTickSteps :
           /\ now + d <= MaxStoreNow
           /\ now' = now + d
    /\ UNCHANGED <<relay, sm>>

InitStore ==
    /\ InitRelay
    /\ \E variant \in Variants : sm = NewStore(variant)

NextStore ==
    \/ KvOpen
    \/ KvFail
    \/ CallUninitialized
    \/ Poll
    \/ FactoryPoll
    \/ StoreSaveAccount
    \/ StoreSaveStreamStatus
    \/ StoreSaveData
    \/ StoreGetRecord
    \/ StoreGetList
    \/ StoreTick

\* the runtime settles the openKv promise and fires the interval timer
SpecStore ==
    /\ InitStore
    /\ [][NextStore]_vars
    /\ WF_vars(KvOpen \/ KvFail)
    /\ WF_vars(Poll)
    /\ WF_vars(FactoryPoll)

\* ================================================================== claims
\* the platform entry of status st
Entry(st, p) == st.platforms[p]

\* the attempts of a fan-out that were made on platform p
AttemptsOn(w, p) == {i \in 1..Len(w.attempts) : w.attempts[i].platform = p}

\* the last attempt of a fan-out on platform p
LastAttemptOn(w, p) ==
    CHOOSE i \in AttemptsOn(w, p) : \A j \in AttemptsOn(w, p) : j <= i

\* every enabled destination was attempted, in registry order, whatever happened
\* to the ones before it
AllAttempted(w) ==
    LET enabled == EnabledDestinations(destinations)
    IN /\ Len(w.attempts) = Len(enabled)
       /\ \A i \in 1..Len(enabled) :
              /\ w.attempts[i].platform = enabled[i].platform
              /\ w.attempts[i].accountId = enabled[i].accountId

\* each platform's entry tells how its start sequence ended, and a platform that
\* was not attempted has no entry
EntriesFollowAttempts(w) ==
    \A p \in Platforms :
        IF AttemptsOn(w, p) = {} THEN ~Entry(w.status, p).present
        ELSE IF w.attempts[LastAttemptOn(w, p)].ok
             THEN /\ Entry(w.status, p).isStreaming
                  /\ Entry(w.status, p).error = ""
             ELSE /\ Entry(w.status, p).present
                  /\ ~Entry(w.status, p).isStreaming
                  /\ Entry(w.status, p).error # ""

\* some start sequence of the fan-out failed
SomeAttemptFailed(w) == \E i \in 1..Len(w.attempts) : ~w.attempts[i].ok

Streaming(p) == Entry(currentStatus, p).present /\ Entry(currentStatus, p).isStreaming

\* the answer the remote side gives to the end request of platform p
EndAnswer(p, endYouTube, endLinkedIn) == IF p = "youtube" THEN endYouTube ELSE endLinkedIn

\* C2 as stated: when stopStream is called on an active session and the remote
\* end call of one streaming platform fails, the failure is caught: every other
\* platform marked as streaming is still stopped, and stopStream finishes with
\* isActive = false.
C2_AsStated ==
    currentStatus.isActive =>
        \A endYouTube \in EndErrors, endLinkedIn \in EndErrors :
            LET w == StopStream(World, endYouTube, endLinkedIn, TRUE, now)
            IN (\E p \in Platforms : Streaming(p) /\ EndAnswer(p, endYouTube, endLinkedIn) # "") =>
                   /\ w.threw = ""
                   /\ ~w.status.isActive
                   /\ \A q \in Platforms :
                          Streaming(q) /\ EndAnswer(q, endYouTube, endLinkedIn) = ""
                              => ~Entry(w.status, q).isStreaming

\* the other platform
Other(p) == IF p = "youtube" THEN "linkedin" ELSE "youtube"

\* C3 as stated: while a session is active with two platforms streaming,
\* removeDestination(P, accountId) for the destination streaming on P completes
\* without error and leaves platforms.P.isStreaming = false, the other platform's
\* entry and isActive unchanged.
C3_AsStated ==
    \A id \in Identities :
        /\ currentStatus.isActive
        /\ Streaming("youtube") /\ Streaming("linkedin")
        /\ FindIndex(destinations, id[1], id[2]) > 0
        /\ [id |-> Entry(currentStatus, id[1]).streamId, platform |-> id[1],
            accountId |-> id[2]] \in live
        => LET w == RemoveDestination(World, id[1], id[2], TRUE, "")
           IN /\ w.threw = ""
              /\ ~Entry(w.status, id[1]).isStreaming
              /\ Entry(w.status, Other(id[1])) = Entry(currentStatus, Other(id[1]))
              /\ w.status.isActive

\* the persisted stream_status record says a session is active
PersistedActive == kv.stream_status # <<>> /\ kv.stream_status[1].isActive

\* the status was corrected after an interruption
Interrupted(st) == ~st.isActive /\ st.error = ErrInterrupted

C5_AsStated ==
    /\ ~currentStatus.isActive
    /\ ~currentConfig.isNull
    /\ EnabledDestinations(destinations) = <<>>
    => \A ocs \in OutcomeSeqs(EnabledDestinations(destinations)), saveOk \in BOOLEAN :
           LET w == StartStream(World, ocs, saveOk, now)
           IN /\ w.threw = ErrNoDestinations
              /\ ~w.status.isActive

\* C6: startStream called when no RelayConfig has been set, by configureRelay
\* or from the store, is rejected with the not-configured error, and isActive is
\* false afterwards.
C6_NotConfigured ==
    currentConfig.isNull =>
        \A ocs \in OutcomeSeqs(EnabledDestinations(destinations)), saveOk \in BOOLEAN :
            LET w == StartStream(World, ocs, saveOk, now)
            IN /\ w.threw = ErrNotConfigured
               /\ ~w.status.isActive
               /\ w.config.isNull

\* C6 witness: an unconfigured orchestrator that holds an enabled destination
\* and whose status carries the not-configured error of a rejected start
C6_Witness ==
    /\ currentConfig.isNull
    /\ EnabledDestinations(destinations) # <<>>
    /\ ~currentStatus.isActive
    /\ currentStatus.error = ErrNotConfigured

\* the errors startStream throws for a precondition violation
PreconditionErrors == {ErrNotConfigured, ErrNoDestinations}

\* C7: a startStream rejected for a precondition violation (not configured, or
\* no destinations) issues no remote platform call, writes nothing to the store,
\* and leaves the platforms map, startedAt and duration of the status unchanged.
C7_RejectedStartFrame ==
    \A ocs \in OutcomeSeqs(EnabledDestinations(destinations)), saveOk \in BOOLEAN :
        LET w == StartStream(World, ocs, saveOk, now)
        IN w.threw \in PreconditionErrors =>
               /\ w.calls = <<>>
               /\ w.live = live
               /\ w.writes = <<>>
               /\ w.kv = kv
               /\ w.status.platforms = currentStatus.platforms
               /\ w.status.startedAt = currentStatus.startedAt
               /\ w.status.duration = currentStatus.duration

\* C7 witness: the status after a start rejected for having no destinations still
\* shows the platforms, startedAt and duration of the session stopped before it
C7_Witness ==
    /\ currentStatus.error = ErrNoDestinations
    /\ destinations = <<>>
    /\ \E p \in Platforms : Entry(currentStatus, p).present
    /\ currentStatus.startedAt # NoTime
    /\ currentStatus.duration # NoTime

\* C8: startStream called while isActive is already true is a no-op: it returns
\* without raising, issues no remote platform call, and leaves startedAt, the
\* platforms map, the config and the destination list exactly as they were.
C8_StartWhileActive ==
    currentStatus.isActive =>
        \A ocs \in OutcomeSeqs(EnabledDestinations(destinations)), saveOk \in BOOLEAN :
            LET w == StartStream(World, ocs, saveOk, now)
            IN /\ w.threw = ""
               /\ w.calls = <<>>
               /\ w.live = live
               /\ w.status.isActive
               /\ w.status.startedAt = currentStatus.startedAt
               /\ w.status.platforms = currentStatus.platforms
               /\ w.config = currentConfig
               /\ w.destinations = destinations

\* C8 witness: a session with a platform streaming, a later clock and an enabled
\* destination the platforms could still serve, on which startStream returns the
\* orchestrator as it found it
C8_Witness ==
    /\ currentStatus.isActive
    /\ \E p \in Platforms : Streaming(p)
    /\ now > currentStatus.startedAt
    /\ CanStart
    /\ \E ocs \in OutcomeSeqs(EnabledDestinations(destinations)) :
           /\ Len(ocs) > 0
           /\ StartStream(World, ocs, TRUE, now) = World

\* C9: stopStream called while isActive is false is a no-op: it returns without
\* error, issues no remote platform call, writes nothing to the store, and leaves
\* the whole status, duration and platforms included, unchanged.
C9_StopWhileInactive ==
    ~currentStatus.isActive =>
        \A endYouTube \in EndErrors, endLinkedIn \in EndErrors, saveOk \in BOOLEAN :
            LET w == StopStream(World, endYouTube, endLinkedIn, saveOk, now)
            IN /\ w.threw = ""
               /\ w.calls = <<>>
               /\ w.live = live
               /\ w.writes = <<>>
               /\ w.kv = kv
               /\ w.status = currentStatus

\* C9 witness: an inactive orchestrator, some time after a session was stopped,
\* on which stopStream returns the orchestrator as it found it
C9_Witness ==
    /\ ~currentStatus.isActive
    /\ currentStatus.startedAt # NoTime
    /\ currentStatus.duration # NoTime
    /\ now > currentStatus.startedAt + 1000 * currentStatus.duration
    /\ \E endYouTube \in EndErrors, endLinkedIn \in EndErrors :
           StopStream(World, endYouTube, endLinkedIn, TRUE, now) = World

\* C10: after an accepted startStream followed by a stopStream that completes,
\* the status has isActive = false and a duration that is a non-negative integer,
\* the whole seconds between the startedAt that start recorded and the time of
\* the stop: floor((stopTime - startedAt) / 1000).
C10_Duration ==
    currentStatus.isActive =>
        /\ currentStatus.startedAt # NoTime
        /\ currentStatus.startedAt <= now
        /\ \A endYouTube \in EndErrors, endLinkedIn \in EndErrors, saveOk \in BOOLEAN :
               LET w == StopStream(World, endYouTube, endLinkedIn, saveOk, now)
                   elapsed == now - currentStatus.startedAt
               IN w.threw = "" =>
                      /\ ~w.status.isActive
                      /\ w.status.startedAt = currentStatus.startedAt
                      /\ w.status.duration \in Nat
                      /\ 1000 * w.status.duration <= elapsed
                      /\ elapsed < 1000 * (w.status.duration + 1)
                      /\ w.kv.stream_status = <<w.status>>

\* C10 witness: a session started at 0 and stopped at 1600 ms has duration 1
C10_Witness ==
    /\ ~currentStatus.isActive
    /\ currentStatus.error = ""
    /\ currentStatus.startedAt = 0
    /\ now = 1600
    /\ currentStatus.duration = 1
    /\ kv.stream_status = <<currentStatus>>

\* C11: after any sequence of addDestination and removeDestination calls from an
\* empty registry the list holds at most one record per (platform, accountId);
\* an addDestination whose identity is already there updates that record in
\* place, the other records and the order untouched: the record carries the
\* enabled value of the latest add and keeps a field that add left out; an
\* identity that is not there is appended.
C11_Upsert ==
    /\ \A i, j \in 1..Len(destinations) :
           /\ destinations[i].platform = destinations[j].platform
           /\ destinations[i].accountId = destinations[j].accountId
           => i = j
    /\ \A destination \in RegistryInputs, saveOk \in BOOLEAN :
           LET w == AddDestination(World, destination, saveOk)
               k == FindIndex(destinations, destination.platform, destination.accountId)
           IN IF k = 0 THEN w.destinations = Append(destinations, destination)
              ELSE /\ Len(w.destinations) = Len(destinations)
                   /\ \A j \in 1..Len(destinations) :
                          j # k => w.destinations[j] = destinations[j]
                   /\ w.destinations[k].platform = destination.platform
                   /\ w.destinations[k].accountId = destination.accountId
                   /\ w.destinations[k].enabled = destination.enabled
                   /\ w.destinations[k].streamKey =
                          IF destination.streamKey = Absent
                          THEN destinations[k].streamKey ELSE destination.streamKey

\* C11 witness: a registry of two records whose first was added enabled with a
\* stream key, on which a second add of that identity, disabled and without a
\* key, leaves two records, the first disabled with the key of the first add
C11_Witness ==
    /\ Len(destinations) = 2
    /\ destinations[1] = [platform |-> "youtube", accountId |-> "acc1",
                          enabled |-> TRUE, streamKey |-> "key1"]
    /\ destinations[2].platform = "youtube" /\ destinations[2].accountId = "acc2"
    /\ AddDestination(World, [platform |-> "youtube", accountId |-> "acc1",
                              enabled |-> FALSE, streamKey |-> Absent], TRUE).destinations
           = <<[platform |-> "youtube", accountId |-> "acc1",
                enabled |-> FALSE, streamKey |-> "key1"], destinations[2]>>
    /\ kv.stream_destinations = <<destinations>>

\* C12 as stated: removeDestination(platform, accountId) for an identity that is
\* not in the registry is a no-op and not an error in every state, also while a
\* session is active and that platform is streaming: it returns without raising,
\* issues no remote call, and leaves the destination list and the status
\* unchanged.
C12_AsStated ==
    \A id \in RegistryIdentities, endErr \in EndErrors :
        FindIndex(destinations, id[1], id[2]) = 0 =>
            LET w == RemoveDestination(World, id[1], id[2], TRUE, endErr)
            IN /\ w.threw = ""
               /\ w.calls = <<>>
               /\ w.destinations = destinations
               /\ w.status = currentStatus

\* the account ids a caller of stopPlatformStream may give, none included
StopAccounts == {NoAccount} \cup {id[2] : id \in RegistryIdentities}

\* C13 as stated: stopPlatformStream(platform, accountId) for a platform marked
\* as streaming, when no destination matching the platform (and the accountId,
\* if given) is in the registry, sets that platform's entry to not-streaming,
\* makes no remote call and does not raise; in every case it leaves isActive and
\* the other platform's entry unchanged.
C13_AsStated ==
    \A p \in Platforms, accountId \in StopAccounts, endErr \in EndErrors :
        LET w == StopPlatformStream(World, p, accountId, endErr)
        IN /\ w.status.isActive = currentStatus.isActive
           /\ Entry(w.status, Other(p)) = Entry(currentStatus, Other(p))
           /\ Streaming(p) /\ FindForStop(destinations, p, accountId) = 0
              => /\ ~Entry(w.status, p).isStreaming
                 /\ w.calls = <<>>
                 /\ w.threw = ""

\* C15 as stated: startStream, stopStream, addDestination and removeDestination are
\* serialized over the shared status, so that no interleaving of a stopStream or a
\* removeDestination with a startStream fan-out in flight ends in a quiescent
\* state where the session is inactive while some platform is marked streaming
\* or a remote broadcast is still live.
C15_AsStated ==
    inflight = Idle /\ ~currentStatus.isActive
        => /\ \A p \in Platforms : ~Streaming(p)
           /\ live = {}

\* C16: two startStream calls issued concurrently make one fan-out. The first call
\* has set the active flag when it yields for the first time, and as long as the
\* session is active a second startStream, whatever the remote side and the store
\* would answer, makes no remote call, writes nothing and leaves startedAt, the
\* platforms map and everything else as they are.
C16_OneFanOut ==
    /\ [][inflight.op # "startStream" /\ inflight'.op = "startStream"
              => currentStatus'.isActive]_vars
    /\ [](inflight.op = "startStream" /\ currentStatus.isActive
              => \A ocs \in OutcomeSeqs(EnabledDestinations(destinations)),
                    saveOk \in BOOLEAN :
                     StartStream(World, ocs, saveOk, now) = World)

\* a first startStream is suspended in the middle of its fan-out, one platform
\* already streaming and one still to attempt, when the second call comes
C16_Witness ==
    /\ inflight.op = "startStream"
    /\ Len(inflight.rest) = 1
    /\ currentStatus.isActive
    /\ \E p \in Platforms : Streaming(p)
    /\ \A ocs \in OutcomeSeqs(EnabledDestinations(destinations)) :
           StartStream(World, ocs, TRUE, now) = World

\* C14 as stated: startup recovery completes, the corrected status persisted,
\* before any other orchestrator call is served. While initialize is in flight
\* nothing but initialize changes the state, and a step of initialize replaces
\* only configuration, destinations and status that no call has written since
\* the module was loaded.
C14_AsStated ==
    [][inflight.op = "initialize"
           => /\ inflight' # inflight
              /\ destinations' # destinations => destinations = <<>>
              /\ currentConfig' # currentConfig => currentConfig = NullConfig
              /\ currentStatus' # currentStatus => currentStatus = InitialStatus]_vars

\* C17 as stated, for accounts: after a successful saveAccount the cache entry of
\* the record and every cached list that contains it are invalidated, so that the
\* next getAccount, the next getAllAccounts and the next getAccountsByPlatform
\* return the version just stored and never a value cached before the write.
C17_AsStated ==
    Ready =>
        \A v \in 1..MaxVersion :
            LET saved == SaveAccount(sm, v)
            IN /\ GetAccount(saved, now).value = v
               /\ GetAllAccounts(saved, now).value = v
               /\ GetAccountsByPlatform(saved, now).value = v

\* C18: a read of a record (getAccount, getStreamStatus, getData) is cache-first
\* with passive expiry. While the clock is strictly before the entry's expiry the
\* cached value is returned and nothing changes. At or after the expiry, or with
\* no entry, the record is read from the store and returned; if there is one it
\* is cached with an expiry one ttl from now, and if the key is absent the read
\* yields null and leaves no cache entry. No other cache entry and no stored
\* record is touched.
C18_CacheFirst ==
    sm.kvState = "open" =>
        \A key \in RecordKeys :
            LET e == sm.cache[key]
                r == GetRecord(sm, key, now)
                v == sm.stored[key]
            IN IF e.set /\ now < e.expiry
               THEN r.value = e.value /\ r.s = sm
               ELSE /\ r.value = v
                    /\ r.s.cache[key] = IF v = 0 THEN NoCache
                                        ELSE [set |-> TRUE, value |-> v,
                                              expiry |-> now + CacheTtl(sm, key)]
                    /\ \A other \in CacheKeys \ {key} : r.s.cache[other] = sm.cache[other]
                    /\ r.s.stored = sm.stored

\* the generic record was cached five minutes ago and its entry expires at this
\* very instant: getData drops it, reads the store and caches the record afresh
C18_Witness ==
    /\ sm.kvState = "open"
    /\ sm.cache["data"].set
    /\ sm.cache["data"].expiry = now
    /\ GetData(sm, now).value = sm.stored["data"]
    /\ GetData(sm, now).s.cache["data"].expiry = now + DefaultCacheTtl

\* C19 as stated: stream-status reads use a one-minute cache ttl in every store
\* variant and on every path (getStreamStatus, getData("stream_status")): an entry
\* cached at some instant expires at most one minute later, so every cached
\* status value is gone from the cache within one minute from now.
C19_AsStated ==
    \A key \in {"status", "data"} :
        sm.cache[key].set => sm.cache[key].expiry <= now + StatusCacheTtl

\* C20 as stated: when opening the KV store has failed, every save and get call on
\* the durable store eventually completes (by failing with a storage error), none
\* waits forever, and a save that returns normally has reached the stored record.
C20_AsStated ==
    /\ [](sm.kvState = "failed" /\ sm.pending # "none" => <>(sm.pending = "none"))
    /\ [](\A v \in 1..MaxVersion : SaveRecordData(sm, v).stored["data"] = v)

\* C21 as stated: store construction at startup always terminates with a usable
\* store. StateManagerFactory.create eventually returns; it returns the durable
\* store only when the backend has opened, and whenever opening the backend has
\* failed it eventually returns the in-memory store.
C21_AsStated ==
    /\ <>(sm.factory # "creating")
    /\ [](sm.factory = "durable" => sm.kvState = "open")
    /\ [](sm.kvState = "failed" => <>(sm.factory = "memory"))

\* C22 as stated, for getUpcomingEvents: the in-memory store and the durable store
\* have the same external contract, so that with the same events stored and the
\* same clock getUpcomingEvents, with any limit or none, returns the same events
\* in the same order from both.
C22_AsStated ==
    \A allEvents \in EventLists, limit \in 0..MaxEvents :
        GetUpcomingEvents("durable", allEvents, now, limit)
            = GetUpcomingEvents("memory", allEvents, now, limit)

\* C23 as stated: getRelayStatus returns a defensive copy and has no effects. It
\* returns the current status, and nothing the caller later assigns through the
\* returned value, to a top-level field or to an entry of its platforms map,
\* changes the orchestrator's own status.
C23_AsStated ==
    /\ GetRelayStatus(World) = currentStatus
    /\ \A field \in {"isActive", "error", "platforms"}, p \in Platforms,
          entry \in {NoEntry, StoppedEntry} :
           CallerWrite(World, field, p, entry).status = currentStatus

\* the place in the registry of the destination a call or an attempt was made for
RegistryPosition(c) == FindIndex(destinations, c.platform, c.accountId)

\* C24: an accepted startStream first sets isActive = true and startedAt = now and
\* empties the platforms map. It then attempts every destination with enabled =
\* true exactly once and no destination with enabled = false, in registry order,
\* the remote calls of one destination all made before the first call of the
\* next; the status is written to the store once, after the fan-out, and the
\* record written is the status the fan-out ended with.
C24_FanOutInOrder ==
    ~currentStatus.isActive /\ StartRejection(World) = "" =>
        /\ StartFresh(World, now).status.isActive
        /\ StartFresh(World, now).status.startedAt = now
        /\ \A p \in Platforms : Entry(StartFresh(World, now).status, p) = NoEntry
        /\ \A ocs \in OutcomeSeqs(EnabledDestinations(destinations)), saveOk \in BOOLEAN :
               LET w == StartStream(World, ocs, saveOk, now)
               IN /\ \A i \in 1..Len(destinations) :
                         Cardinality({a \in 1..Len(w.attempts) :
                                         RegistryPosition(w.attempts[a]) = i})
                             = IF destinations[i].enabled THEN 1 ELSE 0
                  /\ \A a, b \in 1..Len(w.attempts) :
                         a < b => RegistryPosition(w.attempts[a]) < RegistryPosition(w.attempts[b])
                  /\ \A k \in 1..Len(w.calls) :
                         /\ RegistryPosition(w.calls[k]) # 0
                         /\ destinations[RegistryPosition(w.calls[k])].enabled
                  /\ \A k, l \in 1..Len(w.calls) :
                         k < l => RegistryPosition(w.calls[k]) <= RegistryPosition(w.calls[l])
                  /\ \A i \in 1..Len(destinations) :
                         destinations[i].enabled
                             => \E k \in 1..Len(w.calls) : RegistryPosition(w.calls[k]) = i
                  /\ w.writes = <<[key |-> "stream_status", ok |-> saveOk]>>
                  /\ w.status.startedAt = now
                  /\ saveOk => w.status.isActive /\ w.kv.stream_status = <<w.status>>

\* a session started over LinkedIn, first in the registry, and YouTube, second:
\* both stream, LinkedIn's event was created before YouTube's broadcast, and the
\* record in the store is the status with both entries
C24_Witness ==
    /\ currentStatus.isActive
    /\ Len(destinations) = 2
    /\ destinations[1].platform = "linkedin" /\ destinations[1].enabled
    /\ destinations[2].platform = "youtube" /\ destinations[2].enabled
    /\ Streaming("linkedin") /\ Streaming("youtube")
    /\ Entry(currentStatus, "linkedin").streamId < Entry(currentStatus, "youtube").streamId
    /\ currentStatus.startedAt = now
    /\ kv.stream_status = <<currentStatus>>

\* the configurations a caller may pass: the one in use and another one
ConfigInputs == Configs \cup {[isNull |-> FALSE, bitrate |-> 4000, resolution |-> "1080p"]}

\* C25: configureRelay is accepted in every state, idle, during a fan-out and while
\* a session is active. It makes no remote call and leaves the destination list
\* and the status unchanged; when the config is persisted the call resolves and
\* the config in memory and in the store is the one passed, whole; when
\* persisting fails the call rejects and the config in memory and the store keep
\* their previous values.
C25_Configure ==
    \A config \in ConfigInputs, saveOk \in BOOLEAN :
        LET w == ConfigureRelay(World, config, saveOk)
        IN /\ w.destinations = destinations
           /\ w.status = currentStatus
           /\ w.calls = <<>>
           /\ w.live = live
           /\ saveOk => /\ w.threw = ""
                        /\ w.config = config
                        /\ w.kv = [kv EXCEPT !.relay_config = <<config>>]
           /\ ~saveOk => /\ w.threw # ""
                         /\ w.config = currentConfig
                         /\ w.kv = kv

\* a startStream is suspended in its fan-out with one platform streaming, and a
\* configureRelay with another configuration replaces the one in use
C25_Witness ==
    /\ inflight.op = "startStream"
    /\ currentStatus.isActive
    /\ \E p \in Platforms : Streaming(p)
    /\ \E config \in ConfigInputs :
           /\ config # currentConfig
           /\ ConfigureRelay(World, config, TRUE).config = config
           /\ ConfigureRelay(World, config, TRUE).status = currentStatus
           /\ ConfigureRelay(World, config, FALSE).config = currentConfig

\* the (platform, accountId) identities of a destination list, in list order
IdentitiesOf(ds) == [i \in 1..Len(ds) |-> <<ds[i].platform, ds[i].accountId>>]

\* C26: the destination list preserves insertion order. addDestination of a new
\* identity puts it at the end and moves nothing; addDestination of an identity
\* that is in the list leaves every identity at its position; removeDestination
\* drops the identity and keeps the other records, unchanged, in their relative
\* order. This holds whether or not the list is then persisted.
C26_InsertionOrder ==
    /\ \A destination \in RegistryInputs, saveOk \in BOOLEAN :
           LET w == AddDestination(World, destination, saveOk)
               id == <<destination.platform, destination.accountId>>
           IN IdentitiesOf(w.destinations) =
                  IF \E i \in 1..Len(destinations) : IdentitiesOf(destinations)[i] = id
                  THEN IdentitiesOf(destinations)
                  ELSE Append(IdentitiesOf(destinations), id)
    /\ \A id \in RegistryIdentities, saveOk \in BOOLEAN :
           LET w == RemoveDestination(World, id[1], id[2], saveOk, "")
               kept == {i \in 1..Len(destinations) : IdentitiesOf(destinations)[i] # id}
           IN /\ Len(w.destinations) = Cardinality(kept)
              /\ \A i \in kept :
                     w.destinations[Cardinality({j \in kept : j <= i})] = destinations[i]

\* two destinations are registered and persisted: updating the first leaves it
\* first, and removing the first leaves the second, unchanged, alone in the list
C26_Witness ==
    /\ IdentitiesOf(destinations) = <<<<"youtube", "acc1">>, <<"youtube", "acc2">>>>
    /\ ~destinations[1].enabled
    /\ IdentitiesOf(AddDestination(World, [destinations[1] EXCEPT !.enabled = TRUE], TRUE).destinations)
           = IdentitiesOf(destinations)
    /\ RemoveDestination(World, "youtube", "acc1", TRUE, "").destinations = <<destinations[2]>>
    /\ kv.stream_destinations = <<destinations>>

\* the operation that produced w from the current state either left the
\* aggregate status alone or left it equal to the persisted stream_status record
StatusPersisted(w) == w.status # currentStatus => w.kv.stream_status = <<w.status>>

\* C27: the persisted stream_status record follows the aggregate status: once
\* startStream (resolving or rejecting), stopStream, removeDestination or
\* startup recovery has completed and has changed the in-memory status, the
\* persisted record equals the in-memory status. Stated for a store whose
\* writes all succeed.
C27_AsStated ==
    /\ CanStart =>
          \A ocs \in OutcomeSeqs(EnabledDestinations(destinations)) :
              StatusPersisted(StartStream(World, ocs, TRUE, now))
    /\ \A endYouTube \in EndErrors, endLinkedIn \in EndErrors :
           StatusPersisted(StopStream(World, endYouTube, endLinkedIn, TRUE, now))
    /\ \A id \in Identities, endErr \in EndErrors :
           StatusPersisted(RemoveDestination(World, id[1], id[2], TRUE, endErr))
    /\ StatusPersisted(Initialize(FreshProcess, 0))

\* platform p has at least one enabled destination in the registry
HasEnabledDestination(p) ==
    \E i \in 1..Len(destinations) : destinations[i].platform = p /\ destinations[i].enabled

\* C28: after an accepted startStream has finished, whatever the remote side
\* answered and whether or not the status could be saved, the platforms map has
\* an entry for a platform exactly when that platform has an enabled
\* destination; entries of an earlier session do not survive.
C28_EntryIffEnabled ==
    (~currentStatus.isActive /\ StartRejection(World) = "" /\ CanStart) =>
        \A ocs \in OutcomeSeqs(EnabledDestinations(destinations)), saveOk \in BOOLEAN :
            \A p \in Platforms :
                Entry(StartStream(World, ocs, saveOk, now).status, p).present
                    <=> HasEnabledDestination(p)

\* a stopped session left a LinkedIn entry behind, the LinkedIn destination has
\* been disabled since and YouTube is enabled: the next start is accepted, and
\* its status has a YouTube entry and no LinkedIn entry
C28_Witness ==
    /\ ~currentStatus.isActive /\ StartRejection(World) = "" /\ CanStart
    /\ Entry(currentStatus, "linkedin").present
    /\ \E i \in 1..Len(destinations) : destinations[i].platform = "linkedin"
    /\ ~HasEnabledDestination("linkedin")
    /\ HasEnabledDestination("youtube")
    /\ \E ocs \in OutcomeSeqs(EnabledDestinations(destinations)) :
           LET st == StartStream(World, ocs, TRUE, now).status
           IN st.isActive /\ Entry(st, "youtube").isStreaming
                          /\ ~Entry(st, "linkedin").present

\* the remote requests a handler made to one platform, in the order it made them
CallsTo(w, platform) ==
    LET onPlatform(c) == c.platform = platform
    IN SelectSeq(w.calls, onPlatform)

\* the API names of a sequence of remote requests
ApisOf(calls) == [k \in 1..Len(calls) |-> calls[k].api]

\* C29: starting a LinkedIn destination is all-or-nothing for the caller. The
\* requests are create event, READY, PUBLISHED, in that order; nothing is
\* requested after a request that failed, so PUBLISHED never follows a failed
\* READY; when any of them fails the LinkedIn entry is {isStreaming: false,
\* error} with no streamId; only when all three succeeded is the entry
\* streaming, under the id of the event that was created and transitioned.
C29_LinkedInAllOrNothing ==
    (~currentStatus.isActive /\ StartRejection(World) = "" /\ CanStart
        /\ HasEnabledDestination("linkedin")) =>
        \A ocs \in OutcomeSeqs(EnabledDestinations(destinations)), saveOk \in BOOLEAN :
            LET w == StartStream(World, ocs, saveOk, now)
                li == CallsTo(w, "linkedin")
                e == Entry(w.status, "linkedin")
            IN /\ Len(li) \in 1..Len(LinkedInSteps)
               /\ ApisOf(li) = SubSeq(LinkedInSteps, 1, Len(li))
               /\ \A k \in 1..Len(li) : ~li[k].ok => k = Len(li)
               /\ IF \E k \in 1..Len(li) : ~li[k].ok
                  THEN /\ e.present /\ ~e.isStreaming
                       /\ e.error # "" /\ e.streamId = NoId
                       /\ {b \in w.live : b.platform = "linkedin"}
                              = {b \in live : b.platform = "linkedin"}
                  ELSE /\ Len(li) = Len(LinkedInSteps)
                       /\ e.isStreaming /\ e.error = ""
                       /\ e.streamId # NoId
                       /\ li[2].id = e.streamId /\ li[3].id = e.streamId

\* a session is active whose LinkedIn start failed, and from the same registry a
\* start whose READY succeeds and whose PUBLISHED fails ends with a LinkedIn
\* entry that is not streaming and names no stream
C29_Witness ==
    /\ currentStatus.isActive
    /\ HasEnabledDestination("linkedin")
    /\ Entry(currentStatus, "linkedin").present
    /\ ~Entry(currentStatus, "linkedin").isStreaming
    /\ Entry(currentStatus, "linkedin").error = ErrRemoteApi
    /\ \E i \in 1..Len(destinations) :
           /\ destinations[i].platform = "linkedin" /\ destinations[i].enabled
           /\ LET w == StartLinkedInStream(World, destinations[i],
                                           [failAt |-> 3, why |-> ErrRemoteApi], now)
              IN /\ ApisOf(w.calls) = LinkedInSteps
                 /\ w.calls[2].ok /\ ~w.calls[3].ok
                 /\ Entry(w.status, "linkedin") = FailedEntry(ErrRemoteApi)

\* C30: starting a YouTube destination requests create broadcast, create
\* stream, bind stream to broadcast and start broadcast strictly in that order,
\* each after the one before it succeeded. A failure at any step skips all later
\* steps and leaves the YouTube entry {isStreaming: false, error}; the entry is
\* streaming, with streamId the broadcast id that was bound and started, only
\* when start broadcast was requested and succeeded.
C30_YouTubeSequence ==
    (~currentStatus.isActive /\ StartRejection(World) = "" /\ CanStart
        /\ HasEnabledDestination("youtube")) =>
        \A ocs \in OutcomeSeqs(EnabledDestinations(destinations)), saveOk \in BOOLEAN :
            LET w == StartStream(World, ocs, saveOk, now)
                yt == CallsTo(w, "youtube")
                e == Entry(w.status, "youtube")
                started == /\ Len(yt) = Len(YouTubeSteps)
                           /\ yt[Len(YouTubeSteps)].api = "startBroadcast"
                           /\ yt[Len(YouTubeSteps)].ok
            IN /\ Len(yt) \in 1..Len(YouTubeSteps)
               /\ \A k \in 1..Len(yt) :
                      /\ yt[k].api = YouTubeSteps[k]
                      /\ k < Len(yt) => yt[k].ok
               /\ e.present
               /\ e.isStreaming <=> started
               /\ e.isStreaming =>
                      /\ e.streamId # NoId /\ e.error = ""
                      /\ yt[3].id = e.streamId /\ yt[4].id = e.streamId
               /\ ~e.isStreaming =>
                      /\ e.error # "" /\ e.streamId = NoId
                      /\ ~yt[Len(yt)].ok

\* YouTube is streaming in an active session, and from the same registry a start
\* whose bind fails makes three requests, never asks to start the broadcast and
\* ends with a YouTube entry that is not streaming
C30_Witness ==
    /\ currentStatus.isActive
    /\ Entry(currentStatus, "youtube").isStreaming
    /\ \E b \in live : b.platform = "youtube" /\ b.id = Entry(currentStatus, "youtube").streamId
    /\ \E i \in 1..Len(destinations) :
           /\ destinations[i].platform = "youtube" /\ destinations[i].enabled
           /\ LET w == StartYouTubeStream(World, destinations[i],
                                          [failAt |-> 3, why |-> ErrRemoteApi], now)
              IN /\ ApisOf(w.calls) = SubSeq(YouTubeSteps, 1, 3)
                 /\ w.calls[2].ok /\ ~w.calls[3].ok
                 /\ Entry(w.status, "youtube") = FailedEntry(ErrRemoteApi)

\* C31 as stated: in every state in which no orchestrator call is in flight, a
\* status with isActive = false has no platform entry with isStreaming = true;
\* in particular after stopStream, after startup recovery of a status persisted
\* as active, and after a startStream rejected because the status save failed.
C31_AsStated == ~currentStatus.isActive => \A p \in Platforms : ~Streaming(p)

\* ------------------------------------------- two accounts on one platform
\* The orchestrator with a registry that may hold two YouTube accounts besides
\* the LinkedIn one, a store that answers every request and remote platforms
\* that may fail any request. Nothing restarts: a session begins with an
\* accepted startStream and ends with a stopStream that completes.
AccountInputs ==
    {[platform |-> id[1], accountId |-> id[2], enabled |-> en, streamKey |-> Absent] :
        id \in RegistryIdentities, en \in BOOLEAN}

AccountsConfigure ==
    \E config \in Configs :
        /\ Commit(ConfigureRelay(World, config, TRUE))
        /\ UNCHANGED restarts

AccountsAdd ==
    \E destination \in AccountInputs :
        /\ Commit(AddDestination(World, destination, TRUE))
        /\ UNCHANGED restarts

AccountsRemove ==
    \E id \in RegistryIdentities, endErr \in EndErrors :
        /\ Commit(RemoveDestination(World, id[1], id[2], TRUE, endErr))
        /\ UNCHANGED restarts

AccountsStart ==
    /\ CanStart
    /\ \E ocs \in OutcomeSeqs(EnabledDestinations(destinations)) :
           Commit(StartStream(World, ocs, TRUE, now))
    /\ UNCHANGED restarts

AccountsStop ==
    \E endYouTube \in EndErrors, endLinkedIn \in EndErrors :
        /\ Commit(StopStream(World, endYouTube, endLinkedIn, TRUE, now))
        /\ UNCHANGED restarts

NextAccounts ==
    \/ AccountsConfigure
    \/ AccountsAdd
    \/ AccountsRemove
    \/ AccountsStart
    \/ AccountsStop

SpecAccounts == Init /\ [][NextAccounts]_vars

\* C32 as stated: no remote broadcast is leaked. Once a stopStream has completed
\* without error, every broadcast or live event the session made live has
\* received its end call, whatever the registry holds and whatever was removed
\* during the session. Under SpecAccounts a remote resource goes live only in an
\* accepted startStream and a session ends only by a stopStream that completes
\* without error, so this says: when no session is active, nothing is live.
C32_AsStated == ~currentStatus.isActive => live = {}

\* C33 as stated: while a session is active and no call is in flight,
\* platforms.P.isStreaming = true exactly when a broadcast of this session on
\* platform P is live; with two enabled destinations of one platform a failure
\* of the second does not hide the first. Stated for a session started while
\* nothing is live, right after its startStream resolved.
C33_AsStated ==
    (~currentStatus.isActive /\ live = {} /\ StartRejection(World) = "" /\ CanStart) =>
        \A ocs \in OutcomeSeqs(EnabledDestinations(destinations)) :
            LET w == StartStream(World, ocs, TRUE, now)
            IN \A p \in Platforms :
                   (Entry(w.status, p).present /\ Entry(w.status, p).isStreaming)
                       <=> \E b \in w.live : b.platform = p

\* C34 as stated: when stopStream ends a platform's broadcast, the end request
\* goes through the client of the account whose start sequence made that
\* broadcast live, also when the registry holds another destination of the
\* same platform.
C34_AsStated ==
    currentStatus.isActive =>
        \A endYouTube \in EndErrors, endLinkedIn \in EndErrors :
            LET w == StopStream(World, endYouTube, endLinkedIn, TRUE, now)
            IN \A k \in 1..Len(w.calls), b \in live :
                   w.calls[k].id = b.id => w.calls[k].accountId = b.accountId

\* ------------------------------------------------ the standalone controller
\* relay_controller_standalone.ts: the same exports on module state of its own,
\* with no store behind them and with platform clients that answer every request.
StandaloneConfigureRelay(w, config) == [w EXCEPT !.config = config]

StandaloneAddDestination(w, destination) ==
    LET existingIndex == FindIndex(w.destinations, destination.platform, destination.accountId)
    IN IF existingIndex > 0
       THEN [w EXCEPT !.destinations[existingIndex] = MergeDestination(@, destination)]
       ELSE [w EXCEPT !.destinations = Append(@, destination)]

\* removeDestination: returns when nothing was filtered out; else, in an active
\* session, the platform's entry is marked stopped and no request is made
StandaloneRemoveDestination(w, platform, accountId) ==
    LET w1 == [w EXCEPT !.destinations = SelectDests(@, platform, accountId)]
        e == w1.status.platforms[platform]
    IN IF Len(w1.destinations) = Len(w.destinations) THEN w1
       ELSE IF w1.status.isActive /\ e.present /\ e.streamId # NoId
            THEN [w1 EXCEPT !.status.platforms[platform] = StoppedEntry]
            ELSE w1

\* the answers of the clients of this module, none of which rejects
AllSucceed(enabled) == [i \in 1..Len(enabled) |-> [failAt |-> 0, why |-> ""]]

StandaloneStartStream(w, t) ==
    IF w.status.isActive THEN w
    ELSE IF StartRejection(w) # "" THEN StartCaught(w, StartRejection(w))
    ELSE FanOut(StartFresh(w, t), EnabledDestinations(w.destinations),
                AllSucceed(EnabledDestinations(w.destinations)), t)

\* stopPlatformStream: with no destination found the entry is marked stopped
StandaloneStopPlatformStream(w, platform, accountId) ==
    LET e == w.status.platforms[platform]
        i == FindForStop(w.destinations, platform, accountId)
    IN IF ~(e.present /\ e.isStreaming) THEN w
       ELSE IF i = 0 \/ e.streamId = NoId
            THEN [w EXCEPT !.status.platforms[platform] = StoppedEntry]
       ELSE [w EXCEPT !.calls = Append(@, RemoteCall(EndApi(platform), platform,
                                                     w.destinations[i].accountId,
                                                     e.streamId, TRUE)),
                      !.live = {b \in @ : b.id # e.streamId},
                      !.status.platforms[platform] = StoppedEntry]

StandaloneStopStream(w, t) ==
    LET w1 == StandaloneStopPlatformStream(w, "youtube", NoAccount)
        w2 == StandaloneStopPlatformStream(w1, "linkedin", NoAccount)
    IN IF ~w.status.isActive THEN w
       ELSE [w2 EXCEPT !.status.isActive = FALSE,
                       !.status.duration =
                           IF w2.status.startedAt # NoTime
                           THEN Duration(w2.status.startedAt, t) ELSE @]

StandaloneConfigure ==
    \E config \in Configs :
        /\ Commit(StandaloneConfigureRelay(World, config))
        /\ UNCHANGED restarts

StandaloneAdd ==
    \E destination \in AccountInputs :
        /\ Commit(StandaloneAddDestination(World, destination))
        /\ UNCHANGED restarts

StandaloneRemove ==
    \E id \in RegistryIdentities :
        /\ Commit(StandaloneRemoveDestination(World, id[1], id[2]))
        /\ UNCHANGED restarts

StandaloneStart ==
    /\ CanStart
    /\ Commit(StandaloneStartStream(World, now))
    /\ UNCHANGED restarts

StandaloneStop ==
    /\ Commit(StandaloneStopStream(World, now))
    /\ UNCHANGED restarts

NextStandalone ==
    \/ StandaloneConfigure
    \/ StandaloneAdd
    \/ StandaloneRemove
    \/ StandaloneStart
    \/ StandaloneStop
    \/ Tick

SpecStandalone == Init /\ [][NextStandalone]_vars

\* the destination (platform, accountId) is not the one streaming on its
\* platform: it is disabled, or not registered, or the platform's live stream
\* was started for another account
NotTheStreamingOne(id) ==
    ~\E b \in live : /\ b.platform = id[1] /\ b.accountId = id[2]
                     /\ Streaming(id[1])
                     /\ Entry(currentStatus, id[1]).streamId = b.id

\* C35 as stated: removeDestination of a destination that is not the one
\* streaming on its platform leaves every platform status entry unchanged and
\* ends no remote broadcast.
C35_AsStated ==
    \A id \in RegistryIdentities :
        NotTheStreamingOne(id) =>
            LET w == StandaloneRemoveDestination(World, id[1], id[2])
            IN /\ w.status.platforms = currentStatus.platforms
               /\ w.live = live
               /\ w.calls = <<>>

\* the destination list as last persisted; the empty list when none ever was
PersistedDestinations ==
    IF kv.stream_destinations = <<>> THEN <<>> ELSE kv.stream_destinations[1]

\* C36 as stated: store failures leave the registry intact. When persisting
\* stream_destinations fails during addDestination or removeDestination the
\* call rejects and the in-memory list is what it was before the call, so the
\* in-memory list never differs from the last successfully persisted list.
C36_AsStated ==
    /\ \A destination \in RegistryInputs :
           LET w == AddDestination(World, destination, FALSE)
           IN w.threw # "" /\ w.destinations = destinations
    /\ \A id \in RegistryIdentities :
           LET w == RemoveDestination(World, id[1], id[2], FALSE, "")
           IN w.threw # "" /\ w.destinations = destinations
    /\ destinations = PersistedDestinations

\* ------------------------------------------- a read that overlaps a save
\* getAccount, getStreamStatus and getData look in the cache, await kv.get and
\* fill the cache when the promise resolves; a save that is called meanwhile
\* runs on the same store and cache. The store is open and the orchestrator idle.
\* A read suspended at kv.get: the record it asked for and the version it got
SuspendedGet(key, v) == [Idle EXCEPT !.op = key, !.step = v]

store == <<currentConfig, destinations, currentStatus, kv, live, faults, restarts>>

\* a save, from its call to its return: kv.set, then the cache key is cleared
OverlapSave ==
    \E key \in RecordKeys :
        /\ sm.stored[key] < MaxVersion
        /\ sm' = ClearCacheKey([sm EXCEPT !.stored[key] = @ + 1], key)
        /\ UNCHANGED <<store, inflight, now>>

\* a read is called: a cache hit returns at once, a miss issues kv.get, which
\* reads the record as it is now, and suspends
OverlapBeginGet ==
    /\ inflight = Idle
    /\ \E key \in RecordKeys :
           LET c == GetCachedValue(sm, key, now)
           IN /\ sm' = c.s
              /\ inflight' = IF c.hit THEN Idle ELSE SuspendedGet(key, c.s.stored[key])
    /\ UNCHANGED <<store, now>>

\* kv.get resolves: the value, when there is one, is cached and returned
OverlapFinishGet ==
    /\ inflight.op \in RecordKeys
    /\ sm' = IF inflight.step # 0
             THEN SetCachedValue(sm, inflight.op, inflight.step, now, CacheTtl(sm, inflight.op))
             ELSE sm
    /\ inflight' = Idle
    /\ UNCHANGED <<store, now>>

OverlapTick ==
    /\ \E d \in StoreTickSteps :
           /\ now + d <= MaxStoreNow
           /\ now' = now + d
    /\ UNCHANGED <<store, sm, inflight>>

NextOverlap ==
    \/ OverlapSave
    \/ OverlapBeginGet
    \/ OverlapFinishGet
    \/ OverlapTick

SpecOverlap == Init /\ [][NextOverlap]_vars

\* C37 as stated: the cache stays coherent under interleaving. When a read and
\* a save of the same key overlap, the read having read the store but not yet
\* filled the cache when the save writes and invalidates, then once both have
\* completed the cache holds no unexpired entry for the key that differs from
\* the durable value.
C37_AsStated ==
    inflight = Idle =>
        \A key \in RecordKeys :
            (sm.cache[key].set /\ sm.cache[key].expiry > now)
                => sm.cache[key].value = sm.stored[key]

\* C38: an accepted startStream replaces the aggregate status as a whole. The
\* status of the new session has no duration; its top-level error is empty
\* when the status was saved and the save's own error otherwise, never the one
\* the status had before; and every platform entry it has was written by this
\* start: a streaming entry started now under an id nothing referred to before,
\* any other entry carrying the error of this attempt.
C38_StatusReplaced ==
    (~currentStatus.isActive /\ StartRejection(World) = "" /\ CanStart) =>
        \A ocs \in OutcomeSeqs(EnabledDestinations(destinations)), saveOk \in BOOLEAN :
            LET w == StartStream(World, ocs, saveOk, now)
                st == w.status
            IN /\ st.startedAt = now
               /\ st.duration = NoTime
               /\ saveOk => st.isActive /\ st.error = ""
               /\ ~saveOk => /\ ~st.isActive /\ st.error = w.threw
                             /\ w.threw \notin {"", ErrInterrupted} \cup PreconditionErrors
               /\ \A p \in Platforms :
                      Entry(st, p).present =>
                          IF Entry(st, p).isStreaming
                          THEN /\ Entry(st, p).startedAt = now
                               /\ Entry(st, p).streamId \notin UsedIds(World)
                          ELSE Entry(st, p).error # ""

\* recovery marked the status interrupted and a platform entry of the session
\* before is still in it: the next start is accepted, and its status has no
\* top-level error, no duration and only entries of its own
C38_Witness ==
    /\ ~currentStatus.isActive /\ StartRejection(World) = "" /\ CanStart
    /\ currentStatus.error = ErrInterrupted
    /\ \E p \in Platforms : Entry(currentStatus, p).present /\ ~HasEnabledDestination(p)
    /\ \E ocs \in OutcomeSeqs(EnabledDestinations(destinations)) :
           LET st == StartStream(World, ocs, TRUE, now).status
           IN /\ st.isActive /\ st.error = "" /\ st.duration = NoTime
              /\ \E p \in Platforms : Entry(st, p).isStreaming
              /\ \E p \in Platforms : Entry(currentStatus, p).present /\ ~Entry(st, p).present

====
